---- MODULE Spec2Model ----
(***************************************************************************)
(* Tunnel and relay subsystem of the tKeel command-line tool.              *)
(*                                                                         *)
(* One process runs one entry point (InvokeByPortForward,                  *)
(* WebsocketByPortForward, GetPortforward or GetPodPortForward).  The      *)
(* goroutines of the program are modelled as separate actions: the calling *)
(* goroutine (pc), the forwarding goroutine started by PortForward.Init    *)
(* (fw), the interrupt listeners started with `go func(){<-signals;...}`   *)
(* (listeners) and, for sessions handed out by GetPortforward and          *)
(* GetPodPortForward, the tasks of the command layer that call Init and    *)
(* Stop on the returned session.                                           *)
(*                                                                         *)
(* Collaborators outside the repository (kube client, pod resolution, the  *)
(* client-go port forwarder, net/http, gorilla/websocket, the OS) answer   *)
(* nondeterministically with every outcome their interface allows.         *)
(***************************************************************************)
EXTENDS Integers, Sequences, FiniteSets, TLC

\* ---- bounds of the model ------------------------------------------------
MaxInterrupts == 1
MaxFrames == 2
MaxStopCalls == 2
MaxOptions == 1

\* ---- inputs ---------------------------------------------------------------
\* ports of the resolved pod (AppPod.HTTPPort, AppPod.AppPort)
HTTPPorts == {3500}
AppPorts == {8080}
\* local ports the OS may hand out when port 0 is requested
AssignedPorts == {40001}
\* payload bytes of websocket frames
Payloads == {<< >>, <<104>>}
\* message types ReadMessage can hand to the loop; "other" is any
\* unrecognised value
FrameKinds == {"text", "binary", "close", "ping", "pong", "other"}
Frames == [kind : FrameKinds, data : Payloads]
\* tasks of the command layer that own a session returned by Get*PortForward
Tasks == {1, 2}

Entries == {"InvokeByPortForward", "WebsocketByPortForward",
            "GetPortforward", "GetPodPortForward"}
\* entry points that hand the session to the caller
GetEntries == {"GetPortforward", "GetPodPortForward"}
\* one os.Signal channel per signal.Notify call site
SigChans == {"inv", "getpf", "ws", "GetPF", "GetPodPF"}
Options == {"WithHTTPPort", "WithAppPort", "WithAppPod"}

VARIABLES
    entry,      \* entry point being executed ("none" before the call)
    pc,         \* position of the calling goroutine
    ret,        \* what the entry point returned: [val, err], err = "nil" if none
    app,        \* resolved AppPod (Nil when not resolved)
    resolveErr, \* GetAppPod returned an error in this call
    pf,         \* the PortForward session (Nil before NewPortForward)
    StopCh,     \* pf.StopCh: "open" or "closed"
    ReadyCh,    \* pf.ReadyCh: "open" or "closed"
    fw,         \* forwarding goroutine of Init
    listener,   \* the local TCP listener is bound
    initRet,    \* result of Init: "none", "nil" or an error label
    panicked,   \* the process died with a Go runtime panic
    notify,     \* channels registered with signal.Notify
    sigbuf,     \* buffered signals per channel (capacity 1)
    listeners,  \* channels with a goroutine blocked in <-signals
    terminated, \* the process exited (os.Exit or default SIGINT action)
    nInterrupts,\* interrupts delivered so far
    ws,         \* stream session state
    inbound,    \* frames ReadMessage returned so far
    sent,       \* frames written with WriteMessage
    surfaced,   \* items printed by the receive loop
    payload,    \* the caller-supplied data []byte
    fwPorts,    \* ports held by the forwarder (fw.GetPorts)
    url,        \* target built by makeEndpoint / makeWsEndpoint
    resp,       \* the *http.Response of httpc.Do
    stopLog,    \* callers of Stop(), in call order
    hist        \* counters and flags that record what the run did

vars == <<entry, pc, ret, app, resolveErr, pf, StopCh, ReadyCh, fw, listener,
          initRet, panicked, notify, sigbuf, listeners, terminated,
          nInterrupts, ws, inbound, sent, surfaced, payload, fwPorts, url,
          resp, stopLog, hist>>

sessVars == <<pf, StopCh, ReadyCh, fw, listener, initRet, fwPorts, panicked,
              stopLog>>
sigVars == <<notify, sigbuf, listeners, terminated, nInterrupts>>
wsVars == <<ws, inbound, sent, surfaced>>
httpVars == <<url, resp>>
callVars == <<entry, payload, app, resolveErr>>

NoRet == [val |-> "none", err |-> "none"]

\* a nil pointer: the value of app, pf, fwPorts, url and resp before they
\* are set
Nil == [nil |-> TRUE]

InitHist == [newPF |-> 0, initCalls |-> 0, everBound |-> FALSE,
             failedBeforeReady |-> FALSE, httpReqs |-> 0, dials |-> 0,
             reads |-> 0, sigTaken |-> FALSE, downWhileReading |-> FALSE]

Init ==
    /\ entry = "none"
    /\ pc = "idle"
    /\ ret = NoRet
    /\ app = Nil
    /\ resolveErr = FALSE
    /\ pf = Nil
    /\ StopCh = "open"
    /\ ReadyCh = "open"
    /\ fw = "none"
    /\ listener = FALSE
    /\ initRet = "none"
    /\ panicked = FALSE
    /\ notify = {}
    /\ sigbuf = [c \in SigChans |-> 0]
    /\ listeners = {}
    /\ terminated = FALSE
    /\ nInterrupts = 0
    /\ ws = "none"
    /\ inbound = << >>
    /\ sent = << >>
    /\ surfaced = << >>
    /\ payload = << >>
    /\ fwPorts = Nil
    /\ url = Nil
    /\ resp = Nil
    /\ stopLog = << >>
    /\ hist = InitHist

\* the process is still running
Alive == ~terminated /\ ~panicked

\* ---- PortForward ---------------------------------------------------------

\* NewPortForward: the struct literal returned on success.  StopCh and
\* ReadyCh are fresh open channels (the variables StopCh, ReadyCh).
NewPortForward(localPort, remotePort) ==
    [LocalPort |-> localPort, RemotePort |-> remotePort, App |-> "none"]

\* PortForward.Stop: close(pf.StopCh).  Closing a closed channel is a Go
\* runtime panic ("close of closed channel"), which ends the process.
Stop(caller) ==
    /\ stopLog' = Append(stopLog, caller)
    /\ IF StopCh = "open"
          THEN StopCh' = "closed" /\ UNCHANGED panicked
          ELSE panicked' = TRUE /\ UNCHANGED StopCh

\* PortForward.Init up to the `go func()`: RoundTripperFor and
\* NewOnAddresses may fail, and then Init returns that error without
\* starting the forwarding goroutine.
PFInitStart ==
    /\ Alive /\ pc = "init_start"
    /\ hist' = [hist EXCEPT !.initCalls = @ + 1]
    /\ \E r \in {"ok", "error creat spdy round tripper",
                  "error creat portforward"} :
          IF r = "ok"
            THEN /\ fw' = "dialing"
                 /\ pc' = "init_select"
                 /\ UNCHANGED initRet
            ELSE /\ initRet' = r
                 /\ pc' = "init_ret"
                 /\ UNCHANGED fw
    /\ UNCHANGED <<callVars, ret, pf, StopCh, ReadyCh, listener, panicked,
                   fwPorts, stopLog, sigVars, wsVars, httpVars>>

\* fw.ForwardPorts(), first half: dial the pod (protocol upgrade).  On
\* failure ForwardPorts returns the error and the goroutine goes on to
\* `failure <- err` (fw = "failed": blocked in the send).
FwDial ==
    /\ Alive /\ fw = "dialing"
    /\ \E ok \in BOOLEAN :
          /\ fw' = IF ok THEN "listening" ELSE "failed"
          /\ hist' = IF ok THEN hist
                          ELSE [hist EXCEPT !.failedBeforeReady = TRUE]
    /\ UNCHANGED <<callVars, pc, ret, pf, StopCh, ReadyCh, listener, initRet,
                   panicked, fwPorts, stopLog, sigVars, wsVars, httpVars>>

\* fw.ForwardPorts(), second half: bind the local listener; on success the
\* forwarder closes ReadyCh, otherwise ForwardPorts returns an error.
FwListen ==
    /\ Alive /\ fw = "listening"
    /\ \/ /\ \E p \in AssignedPorts :
                fwPorts' = [Local |-> IF pf.LocalPort = 0 THEN p
                                                         ELSE pf.LocalPort,
                            Remote |-> pf.RemotePort]
          /\ listener' = TRUE
          /\ ReadyCh' = "closed"
          /\ fw' = "forwarding"
          /\ hist' = [hist EXCEPT !.everBound = TRUE]
       \/ /\ fw' = "failed"
          /\ hist' = [hist EXCEPT !.failedBeforeReady = TRUE]
          /\ UNCHANGED <<fwPorts, listener, ReadyCh>>
    /\ UNCHANGED <<callVars, pc, ret, pf, StopCh, initRet, panicked, stopLog,
                   sigVars, wsVars, httpVars>>

\* The forwarder sees the closed stop channel: it closes the listener and
\* ForwardPorts returns nil, so the goroutine ends without a send.
FwStopped ==
    /\ Alive /\ fw = "forwarding" /\ StopCh = "closed"
    /\ listener' = FALSE
    /\ fw' = "done"
    /\ UNCHANGED <<callVars, pc, ret, pf, StopCh, ReadyCh, initRet, panicked,
                   fwPorts, stopLog, sigVars, wsVars, httpVars, hist>>

\* The connection to the pod is lost while forwarding.  The listener is
\* closed; depending on the client-go release ForwardPorts returns nil or
\* an error (ErrLostConnectionToPod).
FwLostConnection ==
    /\ Alive /\ fw = "forwarding"
    /\ listener' = FALSE
    /\ \E r \in {"done", "failed"} : fw' = r
    /\ hist' = [hist EXCEPT !.downWhileReading = @ \/ ws = "Reading"]
    /\ UNCHANGED <<callVars, pc, ret, pf, StopCh, ReadyCh, initRet, panicked,
                   fwPorts, stopLog, sigVars, wsVars, httpVars>>

\* Init with a select that does not wait for either signal (a `default:`
\* case): it stores whatever ports it finds and returns nil.
PFInitSelect_NoWait ==
    /\ Alive /\ pc = "init_select"
    /\ \/ /\ initRet' = "nil"
          /\ UNCHANGED <<fw, pf>>
       \/ /\ fw = "failed"
          /\ fw' = "done"
          /\ initRet' = "forward error"
          /\ UNCHANGED pf
    /\ pc' = "init_ret"
    /\ UNCHANGED <<callVars, ret, StopCh, ReadyCh, listener, panicked,
                   fwPorts, stopLog, sigVars, wsVars, httpVars, hist>>

\* Init whose failure branch closes ReadyCh to release other waiters.
PFInitSelect_FailureClosesReady ==
    /\ Alive /\ pc = "init_select"
    /\ \/ /\ ReadyCh = "closed"
          /\ pf' = [pf EXCEPT !.LocalPort = fwPorts.Local,
                              !.RemotePort = fwPorts.Remote]
          /\ initRet' = "nil"
          /\ UNCHANGED <<fw, ReadyCh>>
       \/ /\ fw = "failed"
          /\ fw' = "done"
          /\ initRet' = "forward error"
          /\ ReadyCh' = "closed"
          /\ UNCHANGED pf
    /\ pc' = "init_ret"
    /\ UNCHANGED <<callVars, ret, StopCh, listener, panicked,
                   fwPorts, stopLog, sigVars, wsVars, httpVars, hist>>

\* Init that returns nil on readiness without reading the ports back.
PFInitSelect_KeepsRequestedPorts ==
    /\ Alive /\ pc = "init_select"
    /\ \/ /\ ReadyCh = "closed"
          /\ initRet' = "nil"
          /\ UNCHANGED <<fw, pf>>
       \/ /\ fw = "failed"
          /\ fw' = "done"
          /\ initRet' = "forward error"
          /\ UNCHANGED pf
    /\ pc' = "init_ret"
    /\ UNCHANGED <<callVars, ret, StopCh, ReadyCh, listener, panicked,
                   fwPorts, stopLog, sigVars, wsVars, httpVars, hist>>

\* Init with a third select case (a timer): it gives up with an error
\* although neither signal has arrived.
PFInitSelect_Timeout ==
    /\ Alive /\ pc = "init_select"
    /\ \/ /\ ReadyCh = "closed"
          /\ pf' = [pf EXCEPT !.LocalPort = fwPorts.Local,
                              !.RemotePort = fwPorts.Remote]
          /\ initRet' = "nil"
          /\ UNCHANGED fw
       \/ /\ fw = "failed"
          /\ fw' = "done"
          /\ initRet' = "forward error"
          /\ UNCHANGED pf
       \/ /\ initRet' = "timeout"
          /\ UNCHANGED <<fw, pf>>
    /\ pc' = "init_ret"
    /\ UNCHANGED <<callVars, ret, StopCh, ReadyCh, listener, panicked,
                   fwPorts, stopLog, sigVars, wsVars, httpVars, hist>>

\* The select of Init.  Both cases may be ready at once; Go then picks one
\* at random.  `failure` is unbuffered: the receive is the rendezvous that
\* lets the forwarding goroutine finish.
PFInitSelect ==
    /\ Alive /\ pc = "init_select"
    /\ \/ /\ ReadyCh = "closed"
          /\ pf' = [pf EXCEPT !.LocalPort = fwPorts.Local,
                              !.RemotePort = fwPorts.Remote]
          /\ initRet' = "nil"
          /\ UNCHANGED fw
       \/ /\ fw = "failed"
          /\ fw' = "done"
          /\ initRet' = "forward error"
          /\ UNCHANGED pf
    /\ pc' = "init_ret"
    /\ UNCHANGED <<callVars, ret, StopCh, ReadyCh, listener, panicked,
                   fwPorts, stopLog, sigVars, wsVars, httpVars, hist>>

\* ---- interrupt handling ---------------------------------------------------

\* The OS delivers SIGINT.  With no channel registered the Go runtime's
\* default action ends the process; otherwise the signal is put (without
\* blocking) into every registered channel that has room.
Interrupt ==
    /\ Alive /\ entry # "none" /\ nInterrupts < MaxInterrupts
    /\ nInterrupts' = nInterrupts + 1
    /\ IF notify = {}
         THEN /\ terminated' = TRUE
              /\ UNCHANGED <<sigbuf, hist>>
         ELSE /\ sigbuf' = [c \in SigChans |->
                              IF c \in notify THEN 1 ELSE sigbuf[c]]
              /\ hist' = [hist EXCEPT !.sigTaken = TRUE]
              /\ UNCHANGED terminated
    /\ UNCHANGED <<callVars, pc, ret, sessVars, notify, listeners, wsVars,
                   httpVars>>

\* go func() { <-signals; os.Exit(0) }()
SignalListener(c) ==
    /\ Alive /\ c \in listeners /\ sigbuf[c] = 1
    /\ sigbuf' = [sigbuf EXCEPT ![c] = 0]
    /\ terminated' = TRUE
    /\ UNCHANGED <<callVars, pc, ret, sessVars, notify, listeners,
                   nInterrupts, wsVars, httpVars, hist>>

\* A return of an entry point: the result, and the deferred
\* signal.Stop(signals) for the channels the function registered.
Return(val, err, chans) ==
    /\ pc' = "returned"
    /\ ret' = [val |-> val, err |-> err]
    /\ notify' = notify \ chans

\* ---- the call -------------------------------------------------------------

\* The resolved pods GetAppPod can produce.
Apps == [AppID : {"core"}, HTTPPort : HTTPPorts, AppPort : AppPorts,
         Phase : {"Running", "Pending"}]

\* The command layer calls one entry point with some payload.
Call(e, d) ==
    /\ Alive /\ pc = "idle"
    /\ entry' = e
    /\ payload' = d
    /\ pc' = "config"
    /\ UNCHANGED <<ret, app, resolveErr, sessVars, sigVars, wsVars, httpVars,
                   hist>>

\* ---- InvokeByPortForward --------------------------------------------------

\* kubernetes.GetKubeConfigClient(), then signal.Notify(signals, ...) with
\* the deferred signal.Stop.  No goroutine receives from this channel.
Inv_Config ==
    /\ Alive /\ entry = "InvokeByPortForward" /\ pc = "config"
    /\ \/ Return("", "get kube config error", {})
       \/ /\ notify' = notify \cup {"inv"}
          /\ pc' = "resolve"
          /\ UNCHANGED ret
    /\ UNCHANGED <<callVars, sessVars, sigbuf, listeners, terminated,
                   nInterrupts, wsVars, httpVars, hist>>

\* InvokeByPortForward going on after a failed GetAppPod (the error is
\* dropped and the call continues with some pod).
Inv_Resolve_IgnoresError ==
    /\ Alive /\ entry = "InvokeByPortForward" /\ pc = "resolve"
    /\ \E failed \in BOOLEAN :
          /\ resolveErr' = failed
          /\ \E a \in Apps : app' = a
          /\ pc' = "new"
          /\ UNCHANGED <<ret, notify>>
    /\ UNCHANGED <<entry, payload, sessVars, sigbuf, listeners, terminated,
                   nInterrupts, wsVars, httpVars, hist>>

\* app, err := GetAppPod(client, pluginID); if err != nil { return "", err }
Inv_Resolve ==
    /\ Alive /\ entry = "InvokeByPortForward" /\ pc = "resolve"
    /\ \/ /\ resolveErr' = TRUE
          /\ Return("", "resolve error", {"inv"})
          /\ UNCHANGED app
       \/ /\ \E a \in Apps : app' = a
          /\ pc' = "new"
          /\ UNCHANGED <<ret, notify, resolveErr>>
    /\ UNCHANGED <<entry, payload, sessVars, sigbuf, listeners, terminated,
                   nInterrupts, wsVars, httpVars, hist>>

\* portForward, err := NewPortForward(..., 0, app.HTTPPort, false)
Inv_New ==
    /\ Alive /\ entry = "InvokeByPortForward" /\ pc = "new"
    /\ \/ /\ Return("", "error get k8s client", {"inv"})
          /\ UNCHANGED <<pf, hist>>
       \/ /\ pf' = NewPortForward(0, app.HTTPPort)
          /\ hist' = [hist EXCEPT !.newPF = @ + 1]
          /\ pc' = "init_start"
          /\ UNCHANGED <<ret, notify>>
    /\ UNCHANGED <<callVars, StopCh, ReadyCh, fw, listener, initRet, fwPorts,
                   panicked, stopLog, sigbuf, listeners, terminated,
                   nInterrupts, wsVars, httpVars>>

\* InvokeByPortForward that goes on to the request whatever Init returned.
Inv_AfterInit_IgnoresInitError ==
    /\ Alive /\ entry = "InvokeByPortForward" /\ pc = "init_ret"
    /\ pc' = "http_new"
    /\ UNCHANGED <<ret, notify, StopCh, panicked, stopLog>>
    /\ UNCHANGED <<callVars, pf, ReadyCh, fw, listener, initRet, fwPorts,
                   sigbuf, listeners, terminated, nInterrupts, wsVars,
                   httpVars, hist>>

\* if err = portForward.Init(); err == nil { ... } portForward.Stop();
\* return "", nil
Inv_AfterInit ==
    /\ Alive /\ entry = "InvokeByPortForward" /\ pc = "init_ret"
    /\ IF initRet = "nil"
         THEN /\ pc' = "http_new"
              /\ UNCHANGED <<ret, notify, StopCh, panicked, stopLog>>
         ELSE /\ Stop("InvokeByPortForward")
              /\ IF StopCh = "open"
                   THEN Return("", "nil", {"inv"})
                   ELSE UNCHANGED <<pc, ret, notify>>
    /\ UNCHANGED <<callVars, pf, ReadyCh, fw, listener, initRet, fwPorts,
                   sigbuf, listeners, terminated, nInterrupts, wsVars,
                   httpVars, hist>>

\* makeEndpoint: http://127.0.0.1:<pf.LocalPort>/v<api-version>/invoke/
\* <app.AppID>/method/<method>
makeEndpoint(a, p) ==
    [scheme |-> "http", host |-> "127.0.0.1", port |-> p.LocalPort,
     path |-> <<"v", "RuntimeAPIVersion", "invoke", a.AppID, "method">>]

\* url := makeEndpoint(...); req, err := http.NewRequest(verb, url, ...)
Inv_NewRequest ==
    /\ Alive /\ entry = "InvokeByPortForward" /\ pc = "http_new"
    /\ url' = makeEndpoint(app, pf)
    /\ \/ Return("", "error creat http request", {"inv"})
       \/ /\ pc' = "http_do"
          /\ UNCHANGED <<ret, notify>>
    /\ UNCHANGED <<callVars, sessVars, sigbuf, listeners, terminated,
                   nInterrupts, wsVars, resp, hist>>

\* The responses the endpoint can give: any status, any body, and a body
\* whose read may fail.
Responses == [status : {200, 500}, body : {"", "running"},
              readOK : BOOLEAN]

\* httpc.Do in a retry loop: a failed request is issued again (up to three
\* attempts).
Inv_Do_RetriesOnError ==
    /\ Alive /\ entry = "InvokeByPortForward" /\ pc = "http_do"
    /\ hist' = [hist EXCEPT !.httpReqs = @ + 1]
    /\ \/ /\ IF hist.httpReqs < 2
                THEN UNCHANGED <<pc, ret, notify>>
                ELSE Return("", "error do http request", {"inv"})
          /\ UNCHANGED resp
       \/ /\ \E r \in Responses : resp' = r
          /\ pc' = "http_read"
          /\ UNCHANGED <<ret, notify>>
    /\ UNCHANGED <<callVars, sessVars, sigbuf, listeners, terminated,
                   nInterrupts, wsVars, url>>

\* r, err := httpc.Do(req)
Inv_Do ==
    /\ Alive /\ entry = "InvokeByPortForward" /\ pc = "http_do"
    /\ hist' = [hist EXCEPT !.httpReqs = @ + 1]
    /\ \/ /\ Return("", "error do http request", {"inv"})
          /\ UNCHANGED resp
       \/ /\ \E r \in Responses : resp' = r
          /\ pc' = "http_read"
          /\ UNCHANGED <<ret, notify>>
    /\ UNCHANGED <<callVars, sessVars, sigbuf, listeners, terminated,
                   nInterrupts, wsVars, url>>

\* handleResponse that treats an empty body and a non-2xx status as
\* failures.
handleResponse_RejectsEmptyOrStatus(r) ==
    IF ~r.readOK THEN [val |-> "", err |-> "error read http response"]
    ELSE IF r.body = "" \/ r.status >= 300
           THEN [val |-> "", err |-> "error read http response"]
    ELSE [val |-> r.body, err |-> "nil"]

\* handleResponse: the body read to its end, as a string
handleResponse(r) ==
    IF ~r.readOK THEN [val |-> "", err |-> "error read http response"]
    ELSE IF r.body # "" THEN [val |-> r.body, err |-> "nil"]
    ELSE [val |-> "", err |-> "nil"]

\* return handleResponse(r)
Inv_HandleResponse ==
    /\ Alive /\ entry = "InvokeByPortForward" /\ pc = "http_read"
    /\ Return(handleResponse(resp).val, handleResponse(resp).err, {"inv"})
    /\ UNCHANGED <<callVars, sessVars, sigbuf, listeners, terminated,
                   nInterrupts, wsVars, httpVars, hist>>

\* ---- getPortforward / WebsocketByPortForward ------------------------------

\* getPortforward: GetKubeConfigClient, then signal.Notify and the listener
\* goroutine, started together.
Ws_Config ==
    /\ Alive /\ entry = "WebsocketByPortForward" /\ pc = "config"
    /\ \/ /\ Return("", "get kube config error", {})
          /\ UNCHANGED listeners
       \/ /\ notify' = notify \cup {"getpf"}
          /\ listeners' = listeners \cup {"getpf"}
          /\ pc' = "resolve"
          /\ UNCHANGED ret
    /\ UNCHANGED <<callVars, sessVars, sigbuf, terminated, nInterrupts,
                   wsVars, httpVars, hist>>

\* getPortforward: app, err := GetAppPod(client, pluginID)
Ws_Resolve ==
    /\ Alive /\ entry = "WebsocketByPortForward" /\ pc = "resolve"
    /\ \/ /\ resolveErr' = TRUE
          /\ Return("", "resolve error", {"getpf"})
          /\ UNCHANGED app
       \/ /\ \E a \in Apps : app' = a
          /\ pc' = "phase"
          /\ UNCHANGED <<ret, notify, resolveErr>>
    /\ UNCHANGED <<entry, payload, sessVars, sigbuf, listeners, terminated,
                   nInterrupts, wsVars, httpVars, hist>>

\* getPortforward: if app.pod.Status.Phase != core_v1.PodRunning
Ws_Phase ==
    /\ Alive /\ entry = "WebsocketByPortForward" /\ pc = "phase"
    /\ IF app.Phase # "Running"
         THEN Return("", "no running pods found", {"getpf"})
         ELSE pc' = "new" /\ UNCHANGED <<ret, notify>>
    /\ UNCHANGED <<callVars, sessVars, sigbuf, listeners, terminated,
                   nInterrupts, wsVars, httpVars, hist>>

\* getPortforward: NewPortForward(..., 0, app.AppPort, false) and the
\* return to WebsocketByPortForward, which runs the deferred signal.Stop.
Ws_New ==
    /\ Alive /\ entry = "WebsocketByPortForward" /\ pc = "new"
    /\ \/ /\ Return("", "error get k8s client", {"getpf"})
          /\ UNCHANGED <<pf, hist>>
       \/ /\ pf' = NewPortForward(0, app.AppPort)
          /\ hist' = [hist EXCEPT !.newPF = @ + 1]
          /\ notify' = notify \ {"getpf"}
          /\ pc' = "notify"
          /\ UNCHANGED ret
    /\ UNCHANGED <<callVars, StopCh, ReadyCh, fw, listener, initRet, fwPorts,
                   panicked, stopLog, sigbuf, listeners, terminated,
                   nInterrupts, wsVars, httpVars>>

\* WebsocketByPortForward: the second signal.Notify and listener goroutine
Ws_Notify ==
    /\ Alive /\ entry = "WebsocketByPortForward" /\ pc = "notify"
    /\ notify' = notify \cup {"ws"}
    /\ listeners' = listeners \cup {"ws"}
    /\ pc' = "init_start"
    /\ UNCHANGED <<callVars, ret, sessVars, sigbuf, terminated, nInterrupts,
                   wsVars, httpVars, hist>>

\* if err = portForward.Init(); err == nil { defer portForward.Stop() ... }
\* return "", nil
Ws_AfterInit ==
    /\ Alive /\ entry = "WebsocketByPortForward" /\ pc = "init_ret"
    /\ IF initRet = "nil"
         THEN /\ pc' = "ws_dial"
              /\ ws' = "Connecting"
              /\ UNCHANGED <<ret, notify>>
         ELSE /\ Return("", "nil", {"ws"})
              /\ UNCHANGED ws
    /\ UNCHANGED <<callVars, sessVars, sigbuf, listeners, terminated,
                   nInterrupts, inbound, sent, surfaced, httpVars, hist>>

\* makeWsEndpoint: ws://127.0.0.1:<pf.LocalPort>/<method>
makeWsEndpoint(p) ==
    [scheme |-> "ws", host |-> "127.0.0.1", port |-> p.LocalPort,
     path |-> <<"method">>]

\* A return from inside the `if`: the deferred calls run, portForward.Stop()
\* among them, then signal.Stop.
WsReturn(err) ==
    /\ Stop("WebsocketByPortForward")
    /\ ws' = "Closed"
    /\ IF StopCh = "open"
         THEN Return("", err, {"ws"})
         ELSE UNCHANGED <<pc, ret, notify>>

\* connect, resp, err := dialer.Dial(url, nil)
Ws_Dial ==
    /\ Alive /\ entry = "WebsocketByPortForward" /\ pc = "ws_dial"
    /\ url' = makeWsEndpoint(pf)
    /\ hist' = [hist EXCEPT !.dials = @ + 1]
    /\ \/ WsReturn("connect error")
       \/ /\ ws' = "Open"
          /\ pc' = "ws_write"
          /\ UNCHANGED <<ret, notify, StopCh, panicked, stopLog>>
    /\ UNCHANGED <<callVars, pf, ReadyCh, fw, listener, initRet, fwPorts,
                   sigbuf, listeners, terminated, nInterrupts, inbound, sent,
                   surfaced, resp>>

\* WriteMessage whose error is printed but not returned: the function goes
\* on into the receive loop.
Ws_Write_NoReturnOnError ==
    /\ Alive /\ entry = "WebsocketByPortForward" /\ pc = "ws_write"
    /\ \/ UNCHANGED sent
       \/ sent' = Append(sent, [kind |-> "text", data |-> payload])
    /\ ws' = "Reading"
    /\ pc' = "ws_read"
    /\ UNCHANGED <<ret, notify, StopCh, panicked, stopLog>>
    /\ UNCHANGED <<callVars, pf, ReadyCh, fw, listener, initRet, fwPorts,
                   sigbuf, listeners, terminated, nInterrupts, inbound,
                   surfaced, httpVars, hist>>

\* err = connect.WriteMessage(websocket.TextMessage, data)
Ws_Write ==
    /\ Alive /\ entry = "WebsocketByPortForward" /\ pc = "ws_write"
    /\ \/ /\ WsReturn("websocket write error")
          /\ UNCHANGED sent
       \/ /\ sent' = Append(sent, [kind |-> "text", data |-> payload])
          /\ ws' = "Reading"
          /\ pc' = "ws_read"
          /\ UNCHANGED <<ret, notify, StopCh, panicked, stopLog>>
    /\ UNCHANGED <<callVars, pf, ReadyCh, fw, listener, initRet, fwPorts,
                   sigbuf, listeners, terminated, nInterrupts, inbound,
                   surfaced, httpVars, hist>>

\* A switch whose PingMessage case falls into the printing of the payload.
Classify_PrintsPing(f) ==
    CASE f.kind \in {"text", "ping"} ->
              << [as |-> "string", bytes |-> f.data] >>
      [] f.kind = "binary" -> << [as |-> "bytes", bytes |-> f.data] >>
      [] OTHER -> << >>

\* The switch of the receive loop: what one frame makes the loop print.
\* A text frame is printed as string(messageData), a binary frame as the
\* byte slice; every other message type prints nothing.
Classify(f) ==
    CASE f.kind = "text" -> << [as |-> "string", bytes |-> f.data] >>
      [] f.kind = "binary" -> << [as |-> "bytes", bytes |-> f.data] >>
      [] OTHER -> << >>

\* A receive loop whose CloseMessage case leaves the loop and returns nil.
Ws_Read_CloseReturnsNil ==
    /\ Alive /\ entry = "WebsocketByPortForward" /\ pc = "ws_read"
    /\ hist' = [hist EXCEPT !.reads = @ + 1]
    /\ \/ /\ WsReturn("websocket read error")
          /\ UNCHANGED <<inbound, surfaced>>
       \/ /\ Len(inbound) < MaxFrames
          /\ \E f \in Frames :
                /\ inbound' = Append(inbound, f)
                /\ surfaced' = surfaced \o Classify(f)
                /\ IF f.kind = "close"
                     THEN WsReturn("nil")
                     ELSE UNCHANGED <<pc, ws, ret, notify, StopCh, panicked,
                                      stopLog>>
    /\ UNCHANGED <<callVars, pf, ReadyCh, fw, listener, initRet, fwPorts,
                   sigbuf, listeners, terminated, nInterrupts, sent,
                   httpVars>>

\* A receive loop that takes a read error for the regular end of the
\* stream and returns nil.
Ws_Read_ErrorReturnsNil ==
    /\ Alive /\ entry = "WebsocketByPortForward" /\ pc = "ws_read"
    /\ hist' = [hist EXCEPT !.reads = @ + 1]
    /\ \/ /\ WsReturn("nil")
          /\ UNCHANGED <<inbound, surfaced>>
       \/ /\ Len(inbound) < MaxFrames
          /\ \E f \in Frames :
                /\ inbound' = Append(inbound, f)
                /\ surfaced' = surfaced \o Classify(f)
          /\ UNCHANGED <<pc, ws, ret, notify, StopCh, panicked, stopLog>>
    /\ UNCHANGED <<callVars, pf, ReadyCh, fw, listener, initRet, fwPorts,
                   sigbuf, listeners, terminated, nInterrupts, sent,
                   httpVars>>

\* One turn of `for { messageType, messageData, err := connect.ReadMessage()
\* ... }`: a read error (a peer close included) returns the wrapped error,
\* a frame is classified and the loop reads again.
Ws_Read ==
    /\ Alive /\ entry = "WebsocketByPortForward" /\ pc = "ws_read"
    /\ hist' = [hist EXCEPT !.reads = @ + 1]
    /\ \/ /\ WsReturn("websocket read error")
          /\ UNCHANGED <<inbound, surfaced>>
       \/ /\ Len(inbound) < MaxFrames
          /\ \E f \in Frames :
                /\ inbound' = Append(inbound, f)
                /\ surfaced' = surfaced \o Classify(f)
          /\ UNCHANGED <<pc, ws, ret, notify, StopCh, panicked, stopLog>>
    /\ UNCHANGED <<callVars, pf, ReadyCh, fw, listener, initRet, fwPorts,
                   sigbuf, listeners, terminated, nInterrupts, sent,
                   httpVars>>

\* ---- GetPortforward / GetPodPortForward -----------------------------------

\* GetKubeConfigClient, then signal.Notify with the deferred signal.Stop;
\* the listener goroutine is started later.
GetPF_Config ==
    /\ Alive /\ entry = "GetPortforward" /\ pc = "config"
    /\ \/ Return("nil", "get kube config error", {})
       \/ /\ notify' = notify \cup {"GetPF"}
          /\ pc' = "resolve"
          /\ UNCHANGED ret
    /\ UNCHANGED <<callVars, sessVars, sigbuf, listeners, terminated,
                   nInterrupts, wsVars, httpVars, hist>>

\* app, err := GetAppPod(client, appName); if err != nil { return nil, err }
GetPF_Resolve ==
    /\ Alive /\ entry = "GetPortforward" /\ pc = "resolve"
    /\ \/ /\ resolveErr' = TRUE
          /\ Return("nil", "resolve error", {"GetPF"})
          /\ UNCHANGED app
       \/ /\ \E a \in Apps : app' = a
          /\ pc' = "new"
          /\ UNCHANGED <<ret, notify, resolveErr>>
    /\ UNCHANGED <<entry, payload, sessVars, sigbuf, listeners, terminated,
                   nInterrupts, wsVars, httpVars, hist>>

\* NewPortForward(..., 0, app.HTTPPort, false); the listener goroutine is
\* started before the error of NewPortForward is looked at.
GetPF_New ==
    /\ Alive /\ entry = "GetPortforward" /\ pc = "new"
    /\ listeners' = listeners \cup {"GetPF"}
    /\ \/ /\ Return("nil", "new portforward failed", {"GetPF"})
          /\ UNCHANGED <<pf, hist>>
       \/ /\ pf' = NewPortForward(0, app.HTTPPort)
          /\ hist' = [hist EXCEPT !.newPF = @ + 1]
          /\ pc' = "options"
          /\ UNCHANGED <<ret, notify>>
    /\ UNCHANGED <<callVars, StopCh, ReadyCh, fw, listener, initRet, fwPorts,
                   panicked, stopLog, sigbuf, terminated, nInterrupts,
                   wsVars, httpVars>>

\* WithHTTPPort, WithAppPort, WithAppPod
ApplyOption(o, p, a) ==
    CASE o = "WithHTTPPort" -> [p EXCEPT !.RemotePort = a.HTTPPort]
      [] o = "WithAppPort" -> [p EXCEPT !.RemotePort = a.AppPort]
      [] o = "WithAppPod" -> [p EXCEPT !.App = a.AppID]

RECURSIVE ApplyOptions(_, _, _)
\* for i := 0; i < len(options); i++ { options[i](portForward, app) }
ApplyOptions(os, p, a) ==
    IF os = << >> THEN p
    ELSE ApplyOptions(Tail(os), ApplyOption(Head(os), p, a), a)

OptionLists == UNION {[1..n -> Options] : n \in 0..MaxOptions}

\* the options loop and `return portForward, nil`
GetPF_Options ==
    /\ Alive /\ entry = "GetPortforward" /\ pc = "options"
    /\ \E os \in OptionLists : pf' = ApplyOptions(os, pf, app)
    /\ Return("pf", "nil", {"GetPF"})
    /\ UNCHANGED <<callVars, StopCh, ReadyCh, fw, listener, initRet, fwPorts,
                   panicked, stopLog, sigbuf, listeners, terminated,
                   nInterrupts, wsVars, httpVars, hist>>

\* GetPodPortForward: GetKubeConfigClient, then signal.Notify
GetPodPF_Config ==
    /\ Alive /\ entry = "GetPodPortForward" /\ pc = "config"
    /\ \/ Return("nil", "get kube config error", {})
       \/ /\ notify' = notify \cup {"GetPodPF"}
          /\ pc' = "new"
          /\ UNCHANGED ret
    /\ UNCHANGED <<callVars, sessVars, sigbuf, listeners, terminated,
                   nInterrupts, wsVars, httpVars, hist>>

\* GetPodPortForward: NewPortForward(..., 0, port, false), the listener
\* goroutine, the error check and the return
GetPodPF_New ==
    /\ Alive /\ entry = "GetPodPortForward" /\ pc = "new"
    /\ listeners' = listeners \cup {"GetPodPF"}
    /\ \/ /\ Return("nil", "new portforward failed", {"GetPodPF"})
          /\ UNCHANGED <<pf, hist>>
       \/ /\ \E port \in HTTPPorts \cup AppPorts :
                pf' = NewPortForward(0, port)
          /\ hist' = [hist EXCEPT !.newPF = @ + 1]
          /\ Return("pf", "nil", {"GetPodPF"})
    /\ UNCHANGED <<callVars, StopCh, ReadyCh, fw, listener, initRet, fwPorts,
                   panicked, stopLog, sigbuf, terminated, nInterrupts,
                   wsVars, httpVars>>

\* ---- the owner of a session returned by Get*PortForward -------------------

\* the command layer holds a session
ClientHasPF ==
    /\ entry \in GetEntries
    /\ ret = [val |-> "pf", err |-> "nil"]

\* the owner calls pf.Init()
Client_Init ==
    /\ Alive /\ ClientHasPF /\ pc = "returned" /\ hist.initCalls = 0
    /\ pc' = "init_start"
    /\ UNCHANGED <<callVars, ret, sessVars, sigVars, wsVars, httpVars, hist>>

\* pf.Init() returned to the owner
Client_AfterInit ==
    /\ Alive /\ ClientHasPF /\ pc = "init_ret"
    /\ pc' = "client"
    /\ UNCHANGED <<callVars, ret, sessVars, sigVars, wsVars, httpVars, hist>>

\* a task of the owner calls pf.Stop(), at any time and from any task
Client_Stop(t) ==
    /\ Alive /\ ClientHasPF /\ Len(stopLog) < MaxStopCalls
    /\ Stop(t)
    /\ UNCHANGED <<callVars, pc, ret, pf, ReadyCh, fw, listener, initRet,
                   fwPorts, sigVars, wsVars, httpVars, hist>>

\* ---- specification --------------------------------------------------------

Next ==
    \/ \E e \in Entries, d \in Payloads : Call(e, d)
    \/ PFInitStart
    \/ FwDial
    \/ FwListen
    \/ FwStopped
    \/ FwLostConnection
    \/ PFInitSelect
    \/ Interrupt
    \/ \E c \in SigChans : SignalListener(c)
    \/ Inv_Config
    \/ Inv_Resolve
    \/ Inv_New
    \/ Inv_AfterInit
    \/ Inv_NewRequest
    \/ Inv_Do
    \/ Inv_HandleResponse
    \/ Ws_Config
    \/ Ws_Resolve
    \/ Ws_Phase
    \/ Ws_New
    \/ Ws_Notify
    \/ Ws_AfterInit
    \/ Ws_Dial
    \/ Ws_Write
    \/ Ws_Read
    \/ GetPF_Config
    \/ GetPF_Resolve
    \/ GetPF_New
    \/ GetPF_Options
    \/ GetPodPF_Config
    \/ GetPodPF_New
    \/ Client_Init
    \/ Client_AfterInit
    \/ \E t \in Tasks : Client_Stop(t)

Spec == Init /\ [][Next]_vars

\* ReadMessage on a stream whose tunnel is gone: the forwarder has closed
\* the listener and the forwarded connections, so the blocked read comes
\* back.
Ws_ReadTunnelDown == ~listener /\ Ws_Read

\* Scheduling: a goroutine whose select has a ready case gets to run, and
\* a read on a torn-down connection returns.  Nothing else is fair: the
\* pod may never answer, the peer may never send.
FairSpec ==
    /\ Spec
    /\ WF_vars(PFInitSelect)
    /\ WF_vars(Ws_ReadTunnelDown)

TypeOK ==
    /\ entry \in Entries \cup {"none"}
    /\ StopCh \in {"open", "closed"}
    /\ ReadyCh \in {"open", "closed"}
    /\ fw \in {"none", "dialing", "listening", "forwarding", "failed", "done"}
    /\ ws \in {"none", "Connecting", "Open", "Reading", "Closed"}
    /\ notify \subseteq SigChans
    /\ listeners \subseteq SigChans
    /\ Len(inbound) <= MaxFrames
    /\ Len(stopLog) <= MaxStopCalls

\* ---- properties -----------------------------------------------------------

RelayEntries == {"InvokeByPortForward", "WebsocketByPortForward"}
IsError(e) == e \notin {"nil", "none"}

\* C1: Stop is idempotent: whatever number of Stop() calls are made on a
\* session, from one task or several, none of them faults.
C1_StopNeverFaults == Len(stopLog) >= 1 => ~panicked

\* C2: Init() returns nil only after the forwarding loop has bound the local
\* listener and closed ReadyCh.
C2_InitNilOnlyAfterReady ==
    initRet = "nil" => (ReadyCh = "closed" /\ hist.everBound)

C2_Witness == initRet = "nil" /\ pc = "init_ret" /\ listener

\* C3 as stated: Init has returned the error of the forwarding loop, so
\* ReadyCh is not closed (now or later).
C3_ErrorImpliesNotReady == initRet = "forward error" => ReadyCh = "open"

\* C3 amended: when the forwarding loop failed before becoming ready (dial
\* or listen failure) and Init returned that error, ReadyCh is open in
\* every later state.
C3_FailedBeforeReadyNeverReady ==
    (initRet = "forward error" /\ hist.failedBeforeReady)
        => (ReadyCh = "open" /\ ~hist.everBound /\ fw = "done")

C3_Witness ==
    /\ initRet = "forward error" /\ hist.failedBeforeReady
    /\ pc = "returned"

\* C4: when Init() failed inside InvokeByPortForward or
\* WebsocketByPortForward, the entry point returns a non-nil error.
C4_InitFailurePropagated ==
    (entry \in RelayEntries /\ pc = "returned" /\ IsError(initRet))
        => IsError(ret.err)

\* C5: when InvokeByPortForward or WebsocketByPortForward returns after
\* having constructed a session, the stop signal of that session has been
\* triggered exactly once.
C5_StoppedOnceAtReturn ==
    (entry \in RelayEntries /\ pc = "returned" /\ hist.newPF > 0)
        => (Len(stopLog) = 1 /\ StopCh = "closed")

\* C6: an interrupt taken by a registered channel during an entry point
\* is not lost: when the entry point has returned, a listener goroutine
\* holds the signal (and will exit the process).
C6_InterruptNeverSwallowed ==
    (pc = "returned" /\ hist.sigTaken /\ Alive)
        => \E c \in listeners : sigbuf[c] = 1

\* C7: when GetAppPod fails the entry point returns that error, and no
\* session is constructed or initialised and no local port is bound.
C7_NoTunnelAfterResolveError ==
    resolveErr =>
        /\ hist.newPF = 0 /\ hist.initCalls = 0
        /\ fw = "none" /\ ~listener /\ ~hist.everBound
        /\ pc = "returned" /\ ret.err = "resolve error"

C7_Witness == resolveErr /\ pc = "returned"

\* the moves of a stream session
StreamMoves == {<<"none", "Connecting">>, <<"Connecting", "Open">>,
                <<"Connecting", "Closed">>, <<"Open", "Reading">>,
                <<"Open", "Closed">>, <<"Reading", "Closed">>}

\* C8: a stream session moves only along Connecting -> Open -> Reading*
\* -> Closed; Reading is left only by a read error; and a return of
\* WebsocketByPortForward from a dialled stream carries a non-nil error.
C8_StreamStateMachine ==
    [][ /\ ws' # ws => <<ws, ws'>> \in StreamMoves
        /\ (ws = "Reading" /\ ws' # "Reading")
              => (ws' = "Closed" /\ ret'.err = "websocket read error")
        /\ (ws = "Connecting" /\ ws' = "Closed")
              => ret'.err = "connect error"
        /\ (ws # "none" /\ pc # "returned" /\ pc' = "returned")
              => (ws' = "Closed" /\ IsError(ret'.err)) ]_vars

C8_Witness ==
    /\ ws = "Closed" /\ pc = "returned" /\ Len(inbound) = MaxFrames
    /\ \E i \in 1..Len(inbound) : inbound[i].kind = "close"

\* C9: on a successful connect exactly one outbound frame, the payload as a
\* text frame, is sent, before the first read; nothing else is ever sent;
\* a failed write ends the session with an error and without any read.
C9_OneOutboundFrame ==
    /\ Len(sent) <= 1
    /\ hist.reads > 0 => sent = << [kind |-> "text", data |-> payload] >>
    /\ ws = "Reading" => sent = << [kind |-> "text", data |-> payload] >>
    /\ (ws = "Closed" /\ sent = << >>)
          => (hist.reads = 0 /\ pc = "returned" /\ IsError(ret.err))

C9_Witness ==
    /\ sent = << [kind |-> "text", data |-> <<104>>] >>
    /\ hist.reads = MaxFrames + 1 /\ ws = "Closed"

C9_WitnessWriteFailed ==
    ws = "Closed" /\ ret.err = "websocket write error" /\ sent = << >>

\* the data frames of a sequence of frames
DataFrames(fs) == SelectSeq(fs, LAMBDA f : f.kind \in {"text", "binary"})

\* what the data frames of a sequence must surface, one item per frame
ExpectedItems(fs) ==
    [i \in 1..Len(DataFrames(fs)) |->
        [as |-> IF DataFrames(fs)[i].kind = "text" THEN "string" ELSE "bytes",
         bytes |-> DataFrames(fs)[i].data]]

\* C10: the items surfaced by the receive loop are, in order and one for
\* one, the text frames (as strings) and binary frames (as bytes) received;
\* other frames surface nothing and do not end the loop; the loop ends with
\* the read error of the close.
C10_FrameClassification ==
    /\ surfaced = ExpectedItems(inbound)
    /\ ws = "Reading" => hist.reads = Len(inbound)
    /\ (ws = "Closed" /\ hist.reads > 0)
          => (hist.reads = Len(inbound) + 1
              /\ ret.err = "websocket read error")

C10_Witness ==
    /\ ws = "Closed" /\ pc = "returned"
    /\ \E i, j \in 1..Len(inbound) :
          /\ inbound[i].kind \in {"text", "binary"}
          /\ inbound[j].kind \in {"ping", "pong", "close", "other"}
    /\ Len(surfaced) = 1

\* C11: the relay returns the body of any response unchanged, whatever the
\* status; an empty body gives ("", nil); after a successful Init the result
\* is an error only for a failed request construction, request execution or
\* body read.
C11_BodyReturnedAsIs ==
    [][ /\ (pc = "http_read" /\ pc' = "returned")
              => ret' = IF resp.readOK
                          THEN [val |-> resp.body, err |-> "nil"]
                          ELSE [val |-> "", err |-> "error read http response"]
        /\ (entry = "InvokeByPortForward" /\ pc' = "returned"
              /\ initRet = "nil" /\ IsError(ret'.err))
              => ret'.err \in {"error creat http request",
                               "error do http request",
                               "error read http response"} ]_vars

C11_Witness ==
    /\ entry = "InvokeByPortForward" /\ pc = "returned"
    /\ initRet = "nil" /\ hist.httpReqs = 1
    /\ ret = [val |-> "", err |-> "nil"]
    /\ resp.status = 500 /\ resp.body = "" /\ resp.readOK

C13_RelayOnlyAfterInit ==
    /\ (hist.httpReqs > 0 \/ hist.dials > 0 \/ sent # << >> \/ hist.reads > 0)
          => initRet = "nil"
    /\ pc \in {"http_new", "http_do", "http_read", "ws_dial", "ws_write",
               "ws_read"} => initRet = "nil"

C13_Witness ==
    /\ entry \in RelayEntries /\ pc = "returned" /\ IsError(initRet)
    /\ hist.httpReqs = 0 /\ hist.dials = 0

\* C14: when the tunnel is torn down while the stream relay is Reading,
\* the read fails in the end and the relay reaches Closed with a non-nil
\* error (unless the process ends first); it never reports a nil error.
C14_TeardownSurfacesAsError ==
    /\ []((hist.downWhileReading /\ ws = "Closed") => IsError(ret.err))
    /\ (ws = "Reading" /\ ~listener)
          ~> ((ws = "Closed" /\ IsError(ret.err)) \/ ~Alive)

C14_Witness ==
    /\ hist.downWhileReading /\ ws = "Closed"
    /\ ret.err = "websocket read error" /\ ~listener

\* C15: no relay entry point constructs a session for a pod whose phase is
\* not Running.
C15_NoTunnelToNonRunningPod ==
    (entry \in RelayEntries /\ hist.newPF > 0) => app.Phase = "Running"

\* C16: one call of a relay entry point constructs at most one session,
\* calls Init at most once and issues at most one HTTP request or one dial.
C16_NoRetry ==
    entry \in RelayEntries =>
        /\ hist.newPF <= 1 /\ hist.initCalls <= 1
        /\ hist.httpReqs <= 1 /\ hist.dials <= 1
        /\ hist.httpReqs + hist.dials <= 1

C16_Witness ==
    /\ entry = "InvokeByPortForward" /\ pc = "returned"
    /\ ret.err = "error do http request" /\ hist.httpReqs = 1

\* C17: the forwarding goroutine is never left blocked in `failure <- err`
\* with nobody left to receive: it waits in the send only while Init is
\* still in its select.
C17_ForwarderNeverStuck == fw = "failed" => pc = "init_select"

====
